---- MODULE Spec2Model ----
(***************************************************************************)
(* Model of onnxruntime/core/providers/opencl/opencl_utils.h:              *)
(*   - KernelLauncher, the argument-binding builder, with the device       *)
(*     (clSetKernelArg / clGetMemObjectInfo) as its environment;           *)
(*   - CeilDiv and the Image2DDesc::PackFrom* packing rules, as operators  *)
(*     applied to inputs drawn from bounded sets.                          *)
(***************************************************************************)
EXTENDS Integers, Sequences, FiniteSets, TLC

VARIABLES
  index_,               \* KernelLauncher::index_   (cl_uint)
  err_,                 \* KernelLauncher::err_     (cl_int)
  err_index_,           \* KernelLauncher::err_index_ (cl_uint, not set by the constructor)
  USE_CL_CHECKED_CAST,  \* build mode: TRUE unless NDEBUG is defined
  raised,               \* an exception (ORT_ENFORCE / ORT_THROW) left the chain
  devlog,               \* the device API calls made so far, in order
  args,                 \* the arguments the caller handed to the binding calls, in order
  lastArity,            \* how many arguments the latest binding call took (0: none yet)
  a, b, q, cpc,         \* CeilDiv: operands, result, position
  shape, rule, desc     \* Image2DDesc: the shape, the rule applied, its result

launcherVars == <<index_, err_, err_index_, USE_CL_CHECKED_CAST, raised, devlog, args,
                 lastArity>>
ceilVars == <<a, b, q, cpc>>
packVars == <<shape, rule, desc>>
vars == <<launcherVars, ceilVars, packVars>>

\* ---------------------------------------------------------------- bounds
\* arguments bound on one launcher
MaxArgs == 3
\* arguments of one SetBuffers / SetImage2Ds call
MaxVariadic == 3
\* CeilDiv operands
MaxA == 17
MaxB == 6
\* rank of the shapes handed to the packing rules
MaxRank == 6

\* ---------------------------------------------------------------- device
CL_SUCCESS == "CL_SUCCESS"
\* what clSetKernelArg may return
Statuses == {CL_SUCCESS, "CL_INVALID_ARG_INDEX", "CL_INVALID_ARG_SIZE"}

\* cl_mem values: the null handle, a buffer object, an image object, and a
\* value that is no valid memory object
NullMem == "null"
Handles == {NullMem, "buf", "img", "bad"}
\* the handles passed directly as cl_mem (the code never looks at them)
RawHandles == {"buf", "img"}
\* what the device is handed by a binding that carries no cl_mem (SetShmem,
\* SetInt2/3/4, SetArg): a size and a pointer whose values the code never reads
NoMem == "none"

CL_MEM_OBJECT_BUFFER == "CL_MEM_OBJECT_BUFFER"
CL_MEM_OBJECT_IMAGE2D == "CL_MEM_OBJECT_IMAGE2D"
CL_INVALID_MEM_OBJECT == "CL_INVALID_MEM_OBJECT"

\* clGetMemObjectInfo(mem, CL_MEM_TYPE, ...): the status and the type written
clGetMemObjectInfo(mem) ==
  CASE mem = "buf" -> [status |-> CL_SUCCESS, type |-> CL_MEM_OBJECT_BUFFER]
    [] mem = "img" -> [status |-> CL_SUCCESS, type |-> CL_MEM_OBJECT_IMAGE2D]
    [] OTHER -> [status |-> CL_INVALID_MEM_OBJECT, type |-> "none"]

\* ---------------------------------------------------------------- KernelLauncher
\* The launcher as a value, so that a handler's calls compose.
Launcher ==
  [index_ |-> index_, err_ |-> err_, err_index_ |-> err_index_,
   raised |-> raised, devlog |-> devlog]

\* mutant: the macro without its guard, the device is called every time
SKIP_IF_ERRORED_Unguarded(L, what, ret) ==
  [L EXCEPT !.err_ = ret,
            !.err_index_ = L.index_,
            !.devlog = Append(@, [api |-> "clSetKernelArg", idx |-> L.index_,
                                  mem |-> what, ret |-> ret])]

\* mutant: err_index_ = index_ written outside the guard
SKIP_IF_ERRORED_IndexOutside(L, what, ret) ==
  IF L.err_ = CL_SUCCESS
    THEN [L EXCEPT !.err_ = ret,
                   !.err_index_ = L.index_,
                   !.devlog = Append(@, [api |-> "clSetKernelArg", idx |-> L.index_,
                                         mem |-> what, ret |-> ret])]
    ELSE [L EXCEPT !.err_index_ = L.index_]

\* SKIP_IF_ERRORED(clSetKernelArg(kernel_, index_, size, ptr)); ret is what
\* the device returns if it is called
SKIP_IF_ERRORED(L, what, ret) ==
  IF L.err_ = CL_SUCCESS
    THEN [L EXCEPT !.err_ = ret,
                   !.err_index_ = L.index_,
                   !.devlog = Append(@, [api |-> "clSetKernelArg", idx |-> L.index_,
                                         mem |-> what, ret |-> ret])]
    ELSE L

\* mutant: index_ += 1 inside the guard, so a frozen launcher stops counting
BindNext_NoAdvanceWhenFrozen(L, what, ret) ==
  IF L.raised THEN L
  ELSE IF L.err_ = CL_SUCCESS
    THEN [SKIP_IF_ERRORED(L, what, ret) EXCEPT !.index_ = @ + 1]
    ELSE L

\* the body every binding method shares: SKIP_IF_ERRORED(...); index_ += 1
BindNext(L, what, ret) ==
  IF L.raised THEN L
  ELSE [SKIP_IF_ERRORED(L, what, ret) EXCEPT !.index_ = @ + 1]

SetShmem(L, ret) == BindNext(L, NoMem, ret)
SetInt2(L, ret) == BindNext(L, NoMem, ret)
SetInt3(L, ret) == BindNext(L, NoMem, ret)
SetInt4(L, ret) == BindNext(L, NoMem, ret)
SetArg(L, ret) == BindNext(L, NoMem, ret)

\* SetBuffer(cl_mem) / SetImage2D(cl_mem)
SetBuffer(L, mem, ret) == BindNext(L, mem, ret)
SetImage2D(L, mem, ret) == BindNext(L, mem, ret)

\* CL_CHECK_MEM_OBJECT_IS_BUFFER / _IS_IMAGE_2D: the query, then the two throws
CheckMemObject(L, mem, want) ==
  LET info == clGetMemObjectInfo(mem) IN
  [L EXCEPT !.devlog = Append(@, [api |-> "clGetMemObjectInfo", idx |-> L.index_,
                                  mem |-> mem,
                                  ret |-> IF info.status = CL_SUCCESS
                                            THEN info.type ELSE info.status]),
            !.raised = info.status # CL_SUCCESS \/ info.type # want]

CL_CHECK_MEM_OBJECT_IS_BUFFER(L, mem) == CheckMemObject(L, mem, CL_MEM_OBJECT_BUFFER)
CL_CHECK_MEM_OBJECT_IS_IMAGE_2D(L, mem) == CheckMemObject(L, mem, CL_MEM_OBJECT_IMAGE2D)

\* mutant: the check without the `if (ptr)` guard
CL_BUFFER_FROM_TENSOR_NoNullGuard(L, mem) ==
  IF USE_CL_CHECKED_CAST
    THEN CL_CHECK_MEM_OBJECT_IS_BUFFER(L, mem)
    ELSE L

\* mutant: the image macro checking for a buffer
CL_IMAGE2D_FROM_TENSOR_BufferCheck(L, mem) ==
  IF USE_CL_CHECKED_CAST /\ mem # NullMem
    THEN CL_CHECK_MEM_OBJECT_IS_BUFFER(L, mem)
    ELSE L

\* CL_BUFFER_FROM_TENSOR(tensor): the launcher after the check; the handle
\* it yields is the tensor's DataRaw()
CL_BUFFER_FROM_TENSOR(L, mem) ==
  IF USE_CL_CHECKED_CAST /\ mem # NullMem
    THEN CL_CHECK_MEM_OBJECT_IS_BUFFER(L, mem)
    ELSE L

CL_IMAGE2D_FROM_TENSOR(L, mem) ==
  IF USE_CL_CHECKED_CAST /\ mem # NullMem
    THEN CL_CHECK_MEM_OBJECT_IS_IMAGE_2D(L, mem)
    ELSE L

\* SetBuffer(const Tensor&) / SetImage2D(const Tensor&)
SetBufferTensor(L, mem, ret) ==
  IF L.raised THEN L ELSE SetBuffer(CL_BUFFER_FROM_TENSOR(L, mem), mem, ret)

SetImage2DTensor(L, mem, ret) ==
  IF L.raised THEN L ELSE SetImage2D(CL_IMAGE2D_FROM_TENSOR(L, mem), mem, ret)

\* one argument of a variadic call: a cl_mem or a Tensor
MemArgs == [form : {"cl_mem"}, mem : RawHandles] \cup [form : {"Tensor"}, mem : Handles]

SetBufferAny(L, arg, ret) ==
  IF arg.form = "Tensor" THEN SetBufferTensor(L, arg.mem, ret)
  ELSE SetBuffer(L, arg.mem, ret)

SetImage2DAny(L, arg, ret) ==
  IF arg.form = "Tensor" THEN SetImage2DTensor(L, arg.mem, ret)
  ELSE SetImage2D(L, arg.mem, ret)

\* mutant: the variadic overload binding the rest before the first argument
RECURSIVE SetBuffers_RestFirst(_, _, _)
SetBuffers_RestFirst(L, as, rets) ==
  IF Len(as) = 2
    THEN SetBufferAny(SetBufferAny(L, as[1], rets[1]), as[2], rets[2])
    ELSE SetBufferAny(SetBuffers_RestFirst(L, Tail(as), Tail(rets)), Head(as), Head(rets))

\* SetBuffers(arg, other) and SetBuffers(arg, args...): rets[i] is what the
\* device returns for the i-th argument if it is called
RECURSIVE SetBuffers(_, _, _)
SetBuffers(L, as, rets) ==
  IF Len(as) = 2
    THEN SetBufferAny(SetBufferAny(L, as[1], rets[1]), as[2], rets[2])
    ELSE SetBuffers(SetBufferAny(L, Head(as), Head(rets)), Tail(as), Tail(rets))

RECURSIVE SetImage2Ds(_, _, _)
SetImage2Ds(L, as, rets) ==
  IF Len(as) = 2
    THEN SetImage2DAny(SetImage2DAny(L, as[1], rets[1]), as[2], rets[2])
    ELSE SetImage2Ds(SetImage2DAny(L, Head(as), Head(rets)), Tail(as), Tail(rets))

\* ---------------------------------------------------------------- actions
\* the pure-function variables are not used by the launcher
Idle == /\ a = 0 /\ b = 1 /\ q = 0 /\ cpc = "idle"
        /\ shape = <<>> /\ rule = "idle" /\ desc = [ok |-> TRUE, w |-> 0, h |-> 0]

\* KernelLauncher(kernel): index_{0}, err_{CL_SUCCESS}; err_index_ is left
\* uninitialised, so it holds any value
Init ==
  /\ index_ = 0
  /\ err_ = CL_SUCCESS
  /\ err_index_ \in 0..MaxArgs
  /\ USE_CL_CHECKED_CAST \in BOOLEAN
  /\ raised = FALSE
  /\ devlog = <<>>
  /\ args = <<>>
  /\ lastArity = 0
  /\ Idle

\* a binding call of m arguments can be made
CanCall(m) == ~raised /\ Len(args) + m <= MaxArgs

\* the launcher becomes L, the caller having passed the arguments new
Becomes(L, new) ==
  /\ index_' = L.index_
  /\ err_' = L.err_
  /\ err_index_' = L.err_index_
  /\ raised' = L.raised
  /\ devlog' = L.devlog
  /\ args' = args \o new
  /\ lastArity' = Len(new)
  /\ UNCHANGED <<USE_CL_CHECKED_CAST, ceilVars, packVars>>

\* what the caller passed: a scalar payload, a cl_mem or a Tensor, for a slot
\* of the Buffer or the Image2D kind
ScalarArg == [slot |-> "none", form |-> "scalar", mem |-> NoMem]
MemArg(slot, form, mem) == [slot |-> slot, form |-> form, mem |-> mem]

CallSetShmem ==
  /\ CanCall(1)
  /\ \E ret \in Statuses : Becomes(SetShmem(Launcher, ret), <<ScalarArg>>)

CallSetInt2 ==
  /\ CanCall(1)
  /\ \E ret \in Statuses : Becomes(SetInt2(Launcher, ret), <<ScalarArg>>)

CallSetInt3 ==
  /\ CanCall(1)
  /\ \E ret \in Statuses : Becomes(SetInt3(Launcher, ret), <<ScalarArg>>)

CallSetInt4 ==
  /\ CanCall(1)
  /\ \E ret \in Statuses : Becomes(SetInt4(Launcher, ret), <<ScalarArg>>)

CallSetArg ==
  /\ CanCall(1)
  /\ \E ret \in Statuses : Becomes(SetArg(Launcher, ret), <<ScalarArg>>)

CallSetBuffer ==
  /\ CanCall(1)
  /\ \E mem \in RawHandles, ret \in Statuses :
       Becomes(SetBuffer(Launcher, mem, ret), <<MemArg("Buffer", "cl_mem", mem)>>)

CallSetBufferTensor ==
  /\ CanCall(1)
  /\ \E mem \in Handles, ret \in Statuses :
       Becomes(SetBufferTensor(Launcher, mem, ret), <<MemArg("Buffer", "Tensor", mem)>>)

CallSetImage2D ==
  /\ CanCall(1)
  /\ \E mem \in RawHandles, ret \in Statuses :
       Becomes(SetImage2D(Launcher, mem, ret), <<MemArg("Image2D", "cl_mem", mem)>>)

CallSetImage2DTensor ==
  /\ CanCall(1)
  /\ \E mem \in Handles, ret \in Statuses :
       Becomes(SetImage2DTensor(Launcher, mem, ret), <<MemArg("Image2D", "Tensor", mem)>>)

CallSetBuffers ==
  \E m \in 2..MaxVariadic :
    /\ CanCall(m)
    /\ \E as \in [1..m -> MemArgs], rets \in [1..m -> Statuses] :
         Becomes(SetBuffers(Launcher, as, rets),
                 [i \in 1..m |-> MemArg("Buffer", as[i].form, as[i].mem)])

CallSetImage2Ds ==
  \E m \in 2..MaxVariadic :
    /\ CanCall(m)
    /\ \E as \in [1..m -> MemArgs], rets \in [1..m -> Statuses] :
         Becomes(SetImage2Ds(Launcher, as, rets),
                 [i \in 1..m |-> MemArg("Image2D", as[i].form, as[i].mem)])

Next ==
  \/ CallSetShmem
  \/ CallSetInt2
  \/ CallSetInt3
  \/ CallSetInt4
  \/ CallSetArg
  \/ CallSetBuffer
  \/ CallSetBufferTensor
  \/ CallSetImage2D
  \/ CallSetImage2DTensor
  \/ CallSetBuffers
  \/ CallSetImage2Ds

Spec == Init /\ [][Next]_vars

\* ---------------------------------------------------------------- CeilDiv
\* the launcher is not used by the pure functions
NoLauncher ==
  /\ index_ = 0 /\ err_ = CL_SUCCESS /\ err_index_ = 0 /\ USE_CL_CHECKED_CAST = TRUE
  /\ raised = FALSE /\ devlog = <<>> /\ args = <<>> /\ lastArity = 0

\* C++ integer division: the quotient truncated towards zero
TruncDiv(x, y) ==
  IF (x >= 0) = (y > 0)
    THEN (IF x >= 0 THEN x ELSE -x) \div (IF y > 0 THEN y ELSE -y)
    ELSE -((IF x >= 0 THEN x ELSE -x) \div (IF y > 0 THEN y ELSE -y))

\* CeilDiv(a, b): (a - 1) / b + 1
CeilDiv(x, y) == TruncDiv(x - 1, y) + 1

InitCeilDiv ==
  /\ NoLauncher
  /\ a \in 0..MaxA /\ b \in 1..MaxB /\ q = 0 /\ cpc = "ready"
  /\ shape = <<>> /\ rule = "idle" /\ desc = [ok |-> TRUE, w |-> 0, h |-> 0]

ApplyCeilDiv ==
  /\ cpc = "ready"
  /\ q' = CeilDiv(a, b)
  /\ cpc' = "done"
  /\ UNCHANGED <<a, b, launcherVars, packVars>>

NextCeilDiv == ApplyCeilDiv

SpecCeilDiv == InitCeilDiv /\ [][NextCeilDiv]_vars

\* ---------------------------------------------------------------- Image2DDesc
\* an Image2DDesc {width, height}
Desc(w, h) == [ok |-> TRUE, w |-> w, h |-> h]
\* ORT_ENFORCE failed: the call throws and returns no descriptor
Fatal == [ok |-> FALSE, w |-> 0, h |-> 0]

\* ORT_ENFORCE(cond); return value
Enforce(cond, value) == IF cond THEN value ELSE Fatal

PackFromTensor1D(sh) ==
  IF Len(sh) # 1 THEN Fatal
  ELSE Desc(1024, CeilDiv(sh[1], 4 * 1024))

PackFromTensor2D(sh) ==
  IF Len(sh) # 2 THEN Fatal
  ELSE Desc(CeilDiv(sh[1], 4), sh[2])

PackFromTensorNCHW(sh) ==
  IF Len(sh) # 4 THEN Fatal
  ELSE LET N == sh[1]
           C == sh[2]
           H == sh[3]
           W == sh[4]
           c == 4
           Cc == CeilDiv(C, c)
       IN Desc(Cc * W, N * H)

\* mutant: the rule without ORT_ENFORCE(c == 4)
PackFromTensorNCHWc_NoBlockCheck(sh) ==
  IF Len(sh) # 5 THEN Fatal
  ELSE Desc(sh[2] * sh[4], sh[1] * sh[3])

PackFromTensorNCHWc(sh) ==
  IF Len(sh) # 5 THEN Fatal
  ELSE LET N == sh[1]
           Cc == sh[2]
           H == sh[3]
           W == sh[4]
           c == sh[5]
       IN Enforce(c = 4, Desc(Cc * W, N * H))

PackFromConv2DWeight(sh) ==
  IF Len(sh) # 4 THEN Fatal
  ELSE LET C_o == sh[1]
           C_i == sh[2]
           K_h == sh[3]
           K_w == sh[4]
       IN Desc(C_i, CeilDiv(C_o, 4) * K_h * K_w)

PackFromWinogradTransform(sh) ==
  IF Len(sh) # 4 THEN Fatal
  ELSE LET C_o == sh[1]
           C_i == sh[2]
           K_h == 4
           K_w == 4
       IN Desc(CeilDiv(C_i, 4) * K_h, 16 * CeilDiv(C_o, 4))

PackFromDepthwiseConv2DWeight(sh) ==
  IF Len(sh) # 4 THEN Fatal
  ELSE LET C_o == sh[1]
           C_i == sh[2]
           K_h == sh[3]
           K_w == sh[4]
       IN Desc(K_h * K_w * C_i, CeilDiv(C_o, 4))

\* mutant: the switch without `case 5`
PackFromTensor_NoCase5(sh) ==
  CASE Len(sh) = 1 -> PackFromTensor1D(sh)
    [] Len(sh) = 2 -> PackFromTensor2D(sh)
    [] Len(sh) = 4 -> PackFromTensorNCHW(sh)
    [] OTHER -> Desc(0, 0)

\* PackFromTensor: switch (shape.NumDimensions())
PackFromTensor(sh) ==
  CASE Len(sh) = 1 -> PackFromTensor1D(sh)
    [] Len(sh) = 2 -> PackFromTensor2D(sh)
    [] Len(sh) = 4 -> PackFromTensorNCHW(sh)
    [] Len(sh) = 5 -> PackFromTensorNCHWc(sh)
    [] OTHER -> Desc(0, 0)

\* the dimensions tried: zero, below, at and just above the block of 4, and
\* for one-dimensional shapes the values around the 4 * 1024 row
DimValues == {0, 1, 4, 5}
LongDims == {4095, 4096, 4097, 8192, 8193}
Shapes ==
  UNION {[1..r -> DimValues] : r \in 0..MaxRank} \cup {<<d>> : d \in LongDims}

InitPack ==
  /\ NoLauncher
  /\ a = 0 /\ b = 1 /\ q = 0 /\ cpc = "idle"
  /\ shape \in Shapes /\ rule = "none" /\ desc = Desc(0, 0)

\* the rule named r is applied to the shape and returns d
Applies(r, d) ==
  /\ rule = "none"
  /\ rule' = r
  /\ desc' = d
  /\ UNCHANGED <<shape, launcherVars, ceilVars>>

ApplyPackFromTensor == Applies("PackFromTensor", PackFromTensor(shape))
ApplyPackFromTensor1D == Applies("PackFromTensor1D", PackFromTensor1D(shape))
ApplyPackFromTensor2D == Applies("PackFromTensor2D", PackFromTensor2D(shape))
ApplyPackFromTensorNCHW == Applies("PackFromTensorNCHW", PackFromTensorNCHW(shape))
ApplyPackFromTensorNCHWc == Applies("PackFromTensorNCHWc", PackFromTensorNCHWc(shape))
ApplyPackFromConv2DWeight == Applies("PackFromConv2DWeight", PackFromConv2DWeight(shape))
ApplyPackFromWinogradTransform ==
  Applies("PackFromWinogradTransform", PackFromWinogradTransform(shape))
ApplyPackFromDepthwiseConv2DWeight ==
  Applies("PackFromDepthwiseConv2DWeight", PackFromDepthwiseConv2DWeight(shape))

NextPack ==
  \/ ApplyPackFromTensor
  \/ ApplyPackFromTensor1D
  \/ ApplyPackFromTensor2D
  \/ ApplyPackFromTensorNCHW
  \/ ApplyPackFromTensorNCHWc
  \/ ApplyPackFromConv2DWeight
  \/ ApplyPackFromWinogradTransform
  \/ ApplyPackFromDepthwiseConv2DWeight

SpecPack == InitPack /\ [][NextPack]_vars

\* ---------------------------------------------------------------- what the device saw
IsSetKernelArg(e) == e.api = "clSetKernelArg"
IsGetMemObjectInfo(e) == e.api = "clGetMemObjectInfo"

\* positions in devlog of the clSetKernelArg calls that returned a failure
FailedCalls == {i \in 1..Len(devlog) : IsSetKernelArg(devlog[i]) /\ devlog[i].ret # CL_SUCCESS}
SomeCallFailed == FailedCalls # {}
\* the first clSetKernelArg call that failed
FirstFailure == devlog[CHOOSE i \in FailedCalls : \A j \in FailedCalls : i <= j]
\* arguments handed to the launcher after the one whose binding failed
ArgsAfterFailure == Len(args) - (FirstFailure.idx + 1)

\* the memory type the slot of an argument requires
SlotType(arg) ==
  IF arg.slot = "Buffer" THEN CL_MEM_OBJECT_BUFFER ELSE CL_MEM_OBJECT_IMAGE2D

\* C1: once a clSetKernelArg call has returned a failure, no later binding
\* call invokes clSetKernelArg: in the device's log a failed clSetKernelArg is
\* followed by no other clSetKernelArg.
C1_NoDeviceCallAfterFailure ==
  \A i \in FailedCalls : \A j \in (i + 1)..Len(devlog) : ~IsSetKernelArg(devlog[j])

\* the first argument failed and two more, a scalar and a tensor, were handed
\* over by later binding calls
C1_Witness ==
  /\ SomeCallFailed /\ FirstFailure.idx = 0 /\ ~raised
  /\ Len(args) = 3 /\ index_ = 3
  /\ args[2].form = "scalar" /\ args[3].form = "Tensor"

C3_ErrorMatchesFirstFailure ==
  SomeCallFailed => err_ = FirstFailure.ret /\ err_index_ = FirstFailure.idx

\* the second argument failed with CL_INVALID_ARG_SIZE and a later binding
\* call, skipped by the launcher, followed
C3_Witness ==
  /\ SomeCallFailed /\ FirstFailure.idx = 1 /\ FirstFailure.ret = "CL_INVALID_ARG_SIZE"
  /\ ArgsAfterFailure >= 1 /\ index_ = Len(args)

\* C4 (as claimed): after the error state is frozen no binding call raises,
\* whatever its argument.
C4_NeverRaisesOnceFrozen ==
  ~(raised /\ err_ # CL_SUCCESS)

\* C4 (amended): after the error state is frozen a binding call raises only in
\* the checked build, in a tensor-taking overload, for a tensor whose non-null
\* handle is not a valid memory object of the slot's kind; every other binding
\* call stays callable without raising.
C4_RaisesOnlyOnKindMismatch ==
  (raised /\ err_ # CL_SUCCESS) =>
    /\ USE_CL_CHECKED_CAST
    /\ Len(args) > index_
    /\ args[index_ + 1].form = "Tensor"
    /\ args[index_ + 1].mem # NullMem
    /\ IsGetMemObjectInfo(devlog[Len(devlog)])
    /\ devlog[Len(devlog)].mem = args[index_ + 1].mem
    /\ devlog[Len(devlog)].ret # SlotType(args[index_ + 1])

\* checked build: after the failure a tensor of the right kind and a tensor
\* with a null handle were bound by tensor-taking calls, and nothing raised
C4_Witness ==
  /\ USE_CL_CHECKED_CAST /\ SomeCallFailed /\ ~raised
  /\ FirstFailure.idx = 0 /\ index_ = 3
  /\ args[2].form = "Tensor" /\ args[2].mem # NullMem
  /\ args[3].form = "Tensor" /\ args[3].mem = NullMem

\* C5: in a chain in which no device call fails, the n-th argument handed over
\* is passed to clSetKernelArg exactly once, with argument index n-1, in the
\* caller's left-to-right order, also through SetBuffers / SetImage2Ds.
BindCalls == SelectSeq(devlog, IsSetKernelArg)
C5_OneSlotPerArgumentInOrder ==
  (err_ = CL_SUCCESS /\ ~raised) =>
    /\ index_ = Len(args)
    /\ Len(BindCalls) = Len(args)
    /\ \A n \in 1..Len(args) :
         /\ BindCalls[n].idx = n - 1
         /\ BindCalls[n].mem = args[n].mem
         /\ BindCalls[n].ret = CL_SUCCESS

\* a variadic call of three different handles, all bound
C5_Witness ==
  /\ err_ = CL_SUCCESS /\ ~raised /\ lastArity = 3 /\ Len(args) = 3
  /\ Len(BindCalls) = 3
  /\ args[1].mem # args[2].mem /\ args[2].mem # args[3].mem /\ args[1].mem # args[3].mem

\* the clGetMemObjectInfo query made for the n-th argument, if any, comes
\* before the clSetKernelArg call for it, if any
CheckedBeforeBound(n) ==
  /\ \E i \in 1..Len(devlog) :
       /\ IsGetMemObjectInfo(devlog[i])
       /\ devlog[i].idx = n - 1 /\ devlog[i].mem = args[n].mem
       /\ \A j \in 1..Len(devlog) :
            (IsSetKernelArg(devlog[j]) /\ devlog[j].idx = n - 1) => i < j
\* an argument of the wrong kind is never handed to clSetKernelArg
NeverBoundIfMismatched(n) ==
  \A j \in 1..Len(devlog) :
    (IsSetKernelArg(devlog[j]) /\ devlog[j].idx = n - 1) =>
      clGetMemObjectInfo(args[n].mem).type = SlotType(args[n])

\* the arguments the launcher has gone through
Processed == 1..index_

\* C6 (as claimed): in the checked build, every tensor-taking binding call
\* runs the memory-kind check on the tensor's handle before the binding.
C6_EveryTensorChecked ==
  USE_CL_CHECKED_CAST =>
    \A n \in Processed :
      args[n].form = "Tensor" => CheckedBeforeBound(n) /\ NeverBoundIfMismatched(n)

\* C6 (amended): in the checked build, every tensor-taking binding call whose
\* tensor has a non-null handle runs the memory-kind check before the binding,
\* in every launcher state, and a handle of the wrong kind is never bound; a
\* null handle is bound unchecked.
C6_EveryNonNullTensorChecked ==
  USE_CL_CHECKED_CAST =>
    \A n \in Processed :
      (args[n].form = "Tensor" /\ args[n].mem # NullMem) =>
        CheckedBeforeBound(n) /\ NeverBoundIfMismatched(n)

\* checked build: a tensor was checked and bound, and another was checked by
\* a call made after the error state was frozen
C6_Witness ==
  /\ USE_CL_CHECKED_CAST /\ SomeCallFailed /\ ~raised /\ index_ = 3
  /\ FirstFailure.idx = 1
  /\ args[1].form = "Tensor" /\ args[1].mem # NullMem
  /\ args[3].form = "Tensor" /\ args[3].mem # NullMem

\* C7 (as claimed): for a >= 0 and b > 0, CeilDiv(a,b)*b >= a and
\* CeilDiv(a,b)*b < a+b.
C7_CeilDivBounds ==
  cpc = "done" => q * b >= a /\ q * b < a + b

\* C8: for a shape of rank 1, 2, 4 or 5 PackFromTensor returns what the rule
\* of that rank returns (the same descriptor or the same fatal failure); for a
\* shape of any other rank it returns (0,0).
C8_GenericEqualsRankSpecific ==
  rule = "PackFromTensor" =>
    /\ Len(shape) = 1 => desc = PackFromTensor1D(shape)
    /\ Len(shape) = 2 => desc = PackFromTensor2D(shape)
    /\ Len(shape) = 4 => desc = PackFromTensorNCHW(shape)
    /\ Len(shape) = 5 => desc = PackFromTensorNCHWc(shape)
    /\ Len(shape) \notin {1, 2, 4, 5} => desc = Desc(0, 0)

\* the generic packer was applied to a blocked rank-5 shape and returned a
\* non-empty layout
C8_Witness ==
  /\ rule = "PackFromTensor" /\ Len(shape) = 5 /\ shape[5] = 4
  /\ desc.ok /\ desc.w = shape[2] * shape[4] /\ desc.w > 0 /\ desc.h > 0

\* the ceiling of x / y, for x >= 0 and y > 0
MathCeil(x, y) == (x + y - 1) \div y

\* C9 (as claimed): for every shape with non-negative dimensions the rules
\* return the table's layout, with the mathematical ceiling.
C9_TableLayout ==
  /\ (rule = "PackFromTensor1D" /\ Len(shape) = 1) =>
       desc = Desc(1024, MathCeil(shape[1], 4 * 1024))
  /\ (rule = "PackFromTensor2D" /\ Len(shape) = 2) =>
       desc = Desc(MathCeil(shape[1], 4), shape[2])
  /\ (rule = "PackFromTensorNCHW" /\ Len(shape) = 4) =>
       desc = Desc(MathCeil(shape[2], 4) * shape[4], shape[1] * shape[3])
  /\ (rule = "PackFromTensorNCHWc" /\ Len(shape) = 5 /\ shape[5] = 4) =>
       desc = Desc(shape[2] * shape[4], shape[1] * shape[3])

\* the rank each rule expects
ExpectedRank(r) ==
  CASE r = "PackFromTensor1D" -> 1
    [] r = "PackFromTensor2D" -> 2
    [] r = "PackFromTensorNCHWc" -> 5
    [] OTHER -> 4

RankRules ==
  {"PackFromTensor1D", "PackFromTensor2D", "PackFromTensorNCHW", "PackFromTensorNCHWc",
   "PackFromConv2DWeight", "PackFromDepthwiseConv2DWeight", "PackFromWinogradTransform"}

\* C10: every rank-specific rule fails fatally, returning no descriptor, on a
\* shape whose rank is not the one it expects, and PackFromTensorNCHWc also
\* on a rank-5 shape whose last dimension is not 4.
C10_WrongRankIsFatal ==
  rule \in RankRules =>
    /\ Len(shape) # ExpectedRank(rule) => desc = Fatal
    /\ (rule = "PackFromTensorNCHWc" /\ Len(shape) = 5 /\ shape[5] # 4) => desc = Fatal

\* PackFromTensorNCHWc was applied to a rank-5 shape whose block is not 4
C10_Witness ==
  /\ rule = "PackFromTensorNCHWc" /\ Len(shape) = 5 /\ shape[5] = 5
  /\ shape[2] > 0 /\ shape[4] > 0 /\ desc = Fatal

====
